---- MODULE Spec2Model ----
(***************************************************************************)
(* Model of the fraudcrawler pipeline Orchestrator                         *)
(* (src/fraudcrawler/base/orchestrator.py) together with the collector of  *)
(* FraudCrawlerClient (src/fraudcrawler/base/client.py).                   *)
(*                                                                         *)
(* asyncio runs the coroutines of run() and of the workers on one thread:  *)
(* a coroutine is only interrupted where it really suspends, i.e. at       *)
(* queue.get() on an empty queue, at a collaborator call (network) and at  *)
(* gather/join.  The queues are unbounded, so put() never suspends.  Each  *)
(* action below is the code between two such suspension points.            *)
(***************************************************************************)
EXTENDS Integers, Sequences, FiniteSets, TLC

\* ------------------------------------------------------------------ bounds
MaxWkrs == 2          \* largest configured worker maximum explored
MaxNumResults == 2    \* largest deepness.num_results explored
MaxTerms == 1         \* largest enrichment.additional_terms explored
MaxCrashes == 1       \* fatal worker errors injected per run
MaxItems == 2         \* ProductItems created per run
MaxRuns == 2          \* calls of run() on one Orchestrator
MaxKeywords == 2      \* keywords in one DataForSEO response
MaxLabels == 3        \* dotted labels and slashes of a product url after the host name
MaxStrLen == 4        \* characters of a Host.domains string
MaxWords == 2         \* words of a keyword given to filter_keywords
MaxRetries == 3       \* largest max_retries of SerpApi explored (MAX_RETRIES = 3)

\* --------------------------------------------------------------- constants
NoneV == "None"                       \* Python's None for optional string fields
NoProbability == -1                   \* Python's None for probability (values are percent)
ProbabilityThreshold == 10            \* ZYTE_DEFALUT_PROBABILITY_THRESHOLD = 0.1, in percent
Stages == <<"serp", "url", "zyte", "proc", "res">>
StageSet == {"serp", "url", "zyte", "proc", "res"}

\* filtered_at_stage values
StageCurrentRun == "URL collection (current run deduplication)"
StagePreviousRun == "URL collection (previous run deduplication)"
StageZyte == "Zyte probability threshold"
StageSerp == "SerpAPI"

\* Prompt.default_if_missing and Prompt.allowed_classes of every prompt
DefaultIfMissing == -1
AllowedClasses == {0, 1}

Sentinel == [kind |-> "sentinel"]
NoEntry == [kind |-> "none"]
NoEnrichment == [present |-> FALSE, additional_terms |-> 0, additional_urls_per_term |-> 0]

\* self._queues and self._workers: None after __init__, the five stage keys
\* after _setup_async_framework
NoFramework == [present |-> FALSE, queues |-> {}, workers |-> {}]
CompleteFramework == [present |-> TRUE, queues |-> StageSet, workers |-> StageSet]

\* none of keep_product, Host(...) and filter_keywords is called
NoCall == [op |-> "none"]

\* neither SerpApi.search nor call_serpapi is called
NoRequest == [op |-> "none"]

\* no call of Enricher.apply is in progress
EnrIdle ==
    [op |-> "idle", search_term |-> NoneV, n_terms |-> 0, suggested |-> <<>>,
     related |-> <<>>, terms |-> <<>>]

VARIABLES
    cfg,          \* self._n_serp_wkrs, _n_zyte_wkrs, _n_proc_wkrs
    deepness,     \* the deepness argument of run()
    previously_collected_urls,     \* previously_collected_urls argument of run()
    prompts,      \* the prompts argument of run() (sequence of prompt names)
    pc,           \* position of run()
    nwk,          \* workers spawned per stage
    queues,       \* asyncio.Queue contents per stage (head = next get)
    unfinished,   \* asyncio.Queue._unfinished_tasks per stage
    wstate,       \* state of every worker task
    held,         \* entry a worker took from its queue and has not acknowledged
    wstep,        \* ClassifyStage: index of the next prompt of the held item
    collected_urls_current_run,     \* self._collected_urls_current_run
    collected_urls_previous_runs,    \* self._collected_urls_previous_runs
    collected,    \* products list of the collector
    logged,       \* errors logged by run() and by the guards of the collaborator calls
    sent,         \* sentinels enqueued by run() per stage
    took,         \* sentinels consumed per worker
    created,      \* ProductItems created by the search workers
    crashes,      \* fatal errors injected so far
    stub,         \* behaviour of the collaborators: "free" or the stubs of Scenario B
    calls_left,   \* calls of run() the application still makes on this Orchestrator
    framework,    \* the keys of self._queues and self._workers
    serp_puts,    \* every entry run() has put on the search queue, in order
    enr,          \* a call of Enricher.apply: its arguments, the keyword lists, its result
    ret,          \* a call of keep_product, Host(...) or filter_keywords: its arguments and its result
    rq            \* a call of SerpApi.search or call_serpapi: its locals, its requests, its outcome

vars == <<cfg, deepness, previously_collected_urls, prompts, pc, nwk, queues, unfinished, wstate,
          held, wstep, collected_urls_current_run, collected_urls_previous_runs, collected, logged, sent, took,
          created, crashes, stub, calls_left, framework, serp_puts, enr, ret, rq>>

WorkerIds == 1..MaxWkrs

Min(a, b) == IF a < b THEN a ELSE b

StageIndex(s) == CHOOSE i \in 1..5 : Stages[i] = s

\* ------------------------------------------------------------ data model
\* ProductItem(...) as built by a search worker from one search result
ProductItem(id, term, res) ==
    [kind |-> "item", id |-> id, search_term |-> term, url |-> res.url,
     product_name |-> NoneV, product_price |-> NoneV, product_description |-> NoneV,
     product_images |-> NoneV, probability |-> NoProbability,
     classifications |-> <<>>,
     filtered |-> res.filtered, filtered_at_stage |-> res.filtered_at_stage]

\* the dict put on the serp queue for one search term
SerpItem(term, type, n) ==
    [kind |-> "task", search_term |-> term, search_term_type |-> type, num_results |-> n]

SerpResult(u, f) ==
    [url |-> u, filtered |-> f, filtered_at_stage |-> IF f THEN StageSerp ELSE NoneV]

\* ------------------------------------------------------------ asyncio.Queue
\* every queue is created as asyncio.Queue(), i.e. with the default maxsize 0
Maxsize == 0
\* Queue.full(): a queue with maxsize <= 0 is never full, so put() never
\* suspends and the actions below append without a guard
Full(q) == Maxsize > 0 /\ Len(q) >= Maxsize

\* get(): the head of the queue leaves it
QGetPeek(qs, q) == qs
QGet(qs, q) == [qs EXCEPT ![q] = Tail(@)]

\* put(): append and count the entry as unfinished
QPutTwice(qs, q, entries) == [qs EXCEPT ![q] = @ \o entries \o entries]
QPut(qs, q, entries) == [qs EXCEPT ![q] = @ \o entries]
UPut(un, q, n) == [un EXCEPT ![q] = @ + n]
\* task_done()
TaskDoneNever(un, q) == un
TaskDone(un, q) == [un EXCEPT ![q] = @ - 1]

SentinelSeq(n) == [k \in 1..n |-> Sentinel]

\* number of sentinels run() puts on the queue of a stage
NumSentinelsOne(n) == 1
NumSentinels(n) == n

\* join() returns when every entry of the queue was acknowledged
JoinReadyAlways(s) == TRUE
JoinReady(s) == unfinished[s] = 0

Terminated(s, i) == wstate[s][i] \in {"none", "done", "crashed", "failed", "cancelled"}
\* gather(*workers) / await worker: every worker task of the stage has ended
GatherReady(s) == \A i \in WorkerIds : Terminated(s, i)

\* ------------------------------------------------------------------ inputs
DeepnessSet ==
    { [num_results |-> n, enrichment |-> NoEnrichment] : n \in 0..MaxNumResults }
    \cup
    { [num_results |-> n,
       enrichment |-> [present |-> TRUE, additional_terms |-> t,
                       additional_urls_per_term |-> 1]] :
         n \in 0..MaxNumResults, t \in 1..MaxTerms }

PromptLists == { <<"P1">>, <<"P1", "P2">> }

\* previously_collected_urls: absent, or a list (here of one url)
PrevLists == { {}, {"u1"} }

\* configured worker maxima: one stage at a time gets more than one worker
CfgSet ==
    { c \in [serp : 1..MaxWkrs, zyte : 1..MaxWkrs, proc : 1..MaxWkrs] :
        Cardinality({ s \in {"serp", "zyte", "proc"} : c[s] > 1 }) <= 1 }

\* ------------------------------------------------------------------- Init
InitState ==
    /\ cfg \in CfgSet
    /\ deepness = [num_results |-> 0, enrichment |-> NoEnrichment]
    /\ previously_collected_urls = {}
    /\ prompts = <<>>
    /\ pc = [op |-> "idle", i |-> 0]
    /\ nwk = [s \in StageSet |-> 0]
    /\ queues = [s \in StageSet |-> <<>>]
    /\ unfinished = [s \in StageSet |-> 0]
    /\ wstate = [s \in StageSet |-> [i \in WorkerIds |-> "none"]]
    /\ held = [s \in StageSet |-> [i \in WorkerIds |-> NoEntry]]
    /\ wstep = [i \in WorkerIds |-> 0]
    /\ collected_urls_current_run = {}
    /\ collected_urls_previous_runs = {}
    /\ collected = <<>>
    /\ logged = {}
    /\ sent = [s \in StageSet |-> 0]
    /\ took = [s \in StageSet |-> [i \in WorkerIds |-> 0]]
    /\ created = 0
    /\ crashes = 0
    /\ framework = NoFramework
    /\ serp_puts = <<>>
    /\ enr = EnrIdle

\* the collaborators may answer anything, run() is called once
Init == InitState /\ stub = "free" /\ calls_left = 1 /\ ret = NoCall /\ rq = NoRequest

\* the collaborators are the stubs of Scenario B
InitB == InitState /\ stub = "B" /\ calls_left = 1 /\ ret = NoCall /\ rq = NoRequest

\* run() is called repeatedly on an Orchestrator with one worker per stage
InitRuns ==
    /\ InitState
    /\ cfg = [serp |-> 1, zyte |-> 1, proc |-> 1]
    /\ stub = "free"
    /\ calls_left = MaxRuns
    /\ ret = NoCall /\ rq = NoRequest

\* ------------------------------------------------------------------ run()
\* worker-pool sizes computed by run()
PoolSizesConfigured(d) ==
    [serp |-> cfg.serp, url |-> 1, zyte |-> cfg.zyte, proc |-> cfg.proc, res |-> 1]
PoolSizes(d) ==
    [serp |-> Min(cfg.serp, 1 + (IF d.enrichment.present
                                   THEN d.enrichment.additional_terms ELSE 0)),
     url |-> 1,
     zyte |-> Min(cfg.zyte, d.num_results),
     proc |-> Min(cfg.proc, d.num_results),
     res |-> 1]

\* asyncio.run() of FraudCrawlerClient.execute cancels the worker tasks that
\* are still pending when run() ends with an exception
Cancelled(ws) ==
    [s \in StageSet |->
       [i \in WorkerIds |-> IF ws[s][i] \in {"idle", "busy", "saving"}
                            THEN "cancelled" ELSE ws[s][i]]]

\* the worker tasks _setup_async_framework creates: a list of tasks for the
\* search, detail and classify stages, one task each for the dedup stage and
\* the collector
SpawnTasksPooled(n) ==
    [s \in StageSet |->
       [i \in WorkerIds |->
          IF i <= (IF s \in {"url", "res"} THEN n.zyte ELSE n[s]) THEN "idle" ELSE "none"]]
SpawnTasks(n) ==
    [s \in StageSet |->
       [i \in WorkerIds |->
          IF i <= (IF s \in {"url", "res"} THEN 1 ELSE n[s]) THEN "idle" ELSE "none"]]

\* what run() may find registered after the setup: the framework of
\* _setup_async_framework, or the one of a subclass that overrides the setup
\* and leaves out a queue, a worker handle or everything
Frameworks ==
    { CompleteFramework,
      [present |-> TRUE, queues |-> StageSet \ {"res"}, workers |-> StageSet],
      [present |-> TRUE, queues |-> StageSet, workers |-> StageSet \ {"zyte"}],
      NoFramework }

\* the check of the setup in run()
FrameworkOkAlways(fw) == TRUE
FrameworkOk(fw) ==
    /\ fw.present
    /\ \A k \in StageSet : k \in fw.queues
    /\ \A k \in StageSet : k \in fw.workers

\* the sentinels run() puts on the search queue before its first suspension:
\* all of them without enrichment, none with it (they follow the enriched
\* tasks, after Enricher.apply has returned)
InitialSentinelsEarly(d, n) == NumSentinels(n)
InitialSentinels(d, n) == IF d.enrichment.present THEN 0 ELSE NumSentinels(n)

\* run() up to its first suspension (also a later call, after the call before
\* it has ended): seed sets, _setup_async_framework, the check of the setup
\* (run() raises if it fails), the initial search task and, without
\* enrichment, the search sentinels
RunStart(d, pa, ps) ==
    /\ pc.op \in {"idle", "done", "raised"}
    /\ calls_left > 0
    /\ \E fw \in Frameworks :
         LET n == PoolSizes(d)
             k == InitialSentinels(d, n.serp)
             spawned == SpawnTasks(n)
         IN
         /\ framework' = fw
         /\ deepness' = d
         /\ previously_collected_urls' = pa
         /\ prompts' = ps
         /\ collected_urls_previous_runs' = IF pa # {} THEN collected_urls_current_run ELSE collected_urls_previous_runs
         /\ nwk' = n
         /\ IF FrameworkOk(fw)
            THEN /\ wstate' = spawned
                 /\ queues' = [s \in StageSet |->
                                 IF s = "serp"
                                 THEN <<SerpItem(0, "initial", d.num_results)>> \o SentinelSeq(k)
                                 ELSE <<>>]
                 /\ serp_puts' = <<SerpItem(0, "initial", d.num_results)>> \o SentinelSeq(k)
                 /\ unfinished' = [s \in StageSet |-> IF s = "serp" THEN 1 + k ELSE 0]
                 /\ sent' = [s \in StageSet |-> IF s = "serp" THEN k ELSE 0]
                 /\ pc' = IF d.enrichment.present THEN [op |-> "enrich", i |-> 0]
                                                  ELSE [op |-> "gather", i |-> 1]
            ELSE /\ wstate' = Cancelled(spawned)
                 /\ queues' = [s \in StageSet |-> <<>>]
                 /\ serp_puts' = <<>>
                 /\ unfinished' = [s \in StageSet |-> 0]
                 /\ sent' = [s \in StageSet |-> 0]
                 /\ pc' = [op |-> "raised", i |-> 0]
    /\ held' = [s \in StageSet |-> [i \in WorkerIds |-> NoEntry]]
    /\ wstep' = [i \in WorkerIds |-> 0]
    /\ collected' = <<>>
    /\ logged' = {}
    /\ took' = [s \in StageSet |-> [i \in WorkerIds |-> 0]]
    /\ created' = 0
    /\ crashes' = 0
    /\ calls_left' = calls_left - 1
    /\ UNCHANGED <<cfg, collected_urls_current_run, stub, enr, ret, rq>>

\* the search tasks _add_serp_items builds for the t terms of Enricher.apply
EnrichedTasksDeep(t) ==
    [j \in 1..t |-> SerpItem(j, "enriched", deepness.num_results)]
EnrichedTasks(t) ==
    [j \in 1..t |-> SerpItem(j, "enriched", deepness.enrichment.additional_urls_per_term)]

\* what Enricher.apply logs when it returns
LogProduced == "Produced additional search_terms"

\* _add_serp_items after Enricher.apply returned t terms, then the sentinels
RunEnriched(t) ==
    /\ pc.op = "enrich"
    /\ t <= deepness.enrichment.additional_terms
    /\ LET tasks == EnrichedTasks(t)
           k == NumSentinels(nwk.serp)
       IN
       /\ queues' = QPut(queues, "serp", tasks \o SentinelSeq(k))
       /\ serp_puts' = serp_puts \o tasks \o SentinelSeq(k)
       /\ unfinished' = UPut(unfinished, "serp", t + k)
       /\ sent' = [sent EXCEPT !.serp = @ + k]
    /\ logged' = logged \cup {<<LogProduced, t>>}
    /\ pc' = [op |-> "gather", i |-> 1]
    /\ UNCHANGED <<cfg, deepness, previously_collected_urls, prompts, nwk, wstate, held, wstep,
                   collected_urls_current_run, collected_urls_previous_runs, collected, took, created, crashes, stub, calls_left, framework, enr, ret, rq>>

\* _add_serp_items when a DataForSEO post of the Enricher raised: the error is
\* logged, but the keywords variable stays unbound and the UnboundLocalError
\* of the following len(keywords) leaves Enricher.apply, _add_serp_items and
\* run(), which awaits _add_serp_items outside of any try
RunEnrichRaises ==
    /\ pc.op = "enrich"
    /\ logged' = logged \cup {<<"DataForSEO suggested keyword search failed", 0>>}
    /\ pc' = [op |-> "raised", i |-> 0]
    /\ wstate' = Cancelled(wstate)
    /\ UNCHANGED <<cfg, deepness, previously_collected_urls, prompts, nwk, queues, unfinished, held,
                   wstep, collected_urls_current_run, collected_urls_previous_runs, collected, sent, took,
                   created, crashes, stub, calls_left, framework, serp_puts, enr, ret, rq>>

\* the workers of a stage whose task ended with an error, as run() logs them
WorkerErrorsNone(s) == {}
WorkerErrors(s) ==
    { <<s, w>> : w \in { x \in WorkerIds : wstate[s][x] \in {"crashed", "failed"} } }

\* await gather(*workers, return_exceptions=True) / await worker: resumes
\* once every worker of the stage has ended; errors are logged
RunGather(i) ==
    /\ pc = [op |-> "gather", i |-> i]
    /\ GatherReady(Stages[i])
    /\ logged' = logged \cup WorkerErrors(Stages[i])
    /\ pc' = [op |-> "join", i |-> i]
    /\ UNCHANGED <<cfg, deepness, previously_collected_urls, prompts, nwk, queues, unfinished, wstate,
                   held, wstep, collected_urls_current_run, collected_urls_previous_runs, collected, sent, took,
                   created, crashes, stub, calls_left, framework, serp_puts, enr, ret, rq>>

\* finally: await queue.join(); then the sentinels of the next stage
RunJoin(i) ==
    /\ pc = [op |-> "join", i |-> i]
    /\ JoinReady(Stages[i])
    /\ IF i < 5
       THEN LET nx == Stages[i + 1]
                k == NumSentinels(nwk[nx])
            IN /\ queues' = QPut(queues, nx, SentinelSeq(k))
               /\ unfinished' = UPut(unfinished, nx, k)
               /\ sent' = [sent EXCEPT ![nx] = @ + k]
               /\ pc' = [op |-> "gather", i |-> i + 1]
       ELSE /\ pc' = [op |-> "done", i |-> 0]
            /\ UNCHANGED <<queues, unfinished, sent>>
    /\ UNCHANGED <<cfg, deepness, previously_collected_urls, prompts, nwk, wstate, held, wstep,
                   collected_urls_current_run, collected_urls_previous_runs, collected, logged, took, created, crashes, stub, calls_left, framework, serp_puts, enr, ret, rq>>

\* ------------------------------------------------------- collaborators
\* result lists the search collaborator may return for a task
SerpPatterns ==
    { <<SerpResult("u1", FALSE), SerpResult("u1", FALSE), SerpResult("u2", FALSE)>>,
      <<SerpResult("u2", TRUE), SerpResult("u1", FALSE), SerpResult("u2", FALSE)>> }
ScenarioBResults ==
    <<SerpResult("u1", FALSE), SerpResult("u2", FALSE), SerpResult("u1", FALSE)>>

\* SerpApi.apply(**item): a list of at most num_results results, or an error
SerpApply(task) ==
    IF stub = "B"
    THEN { [ok |-> TRUE,
            results |-> IF task.search_term_type = "initial"
                        THEN ScenarioBResults ELSE <<>>] }
    ELSE { [ok |-> FALSE, results |-> <<>>] } \cup
         { [ok |-> TRUE, results |-> SubSeq(p, 1, n)] :
             p \in SerpPatterns,
             n \in 0..Min(Min(task.num_results, Len(ScenarioBResults)), MaxItems - created) }

Details(n, d, p) ==
    [ok |-> TRUE, name |-> n, price |-> "price", description |-> d, images |-> "images",
     probability |-> p]
\* ZyteApi.get_details(url): the extracted details, or an error
GetDetails(url) ==
    IF stub = "B"
    THEN { Details("name", "desc", IF url = "u2" THEN 5 ELSE 50) }
    ELSE { [ok |-> FALSE, name |-> NoneV, price |-> NoneV, description |-> NoneV,
            images |-> NoneV, probability |-> NoProbability],
           Details("name", "desc", 50),
           Details("name", "desc", 5),
           Details(NoneV, "desc", 50) }

\* _keep_product_probability: a missing probability raises KeyError and gives
\* False, otherwise prob > threshold
KeepProductProbabilityGe(prob, threshold) == prob # NoProbability /\ prob >= threshold
KeepProductProbability(prob, threshold) == prob # NoProbability /\ prob > threshold

\* keep_product of the detail stage: the probability exists and exceeds the
\* default threshold
KeepProductAlways(details) == TRUE
KeepProduct(details) ==
    /\ details.probability # NoProbability
    /\ details.probability > ProbabilityThreshold

\* replies of the classifier API: a class, an unexpected text, a failure
ClassifierReplies == {"1", "7", "error"}

\* int(content) of a classifier reply
ReplyClass(reply) == IF reply = "0" THEN 0 ELSE IF reply = "1" THEN 1 ELSE 7

\* the check for missing fields that precedes the call of the classifier API
MissingFieldsNever(name, description) == FALSE
MissingFields(name, description) == name = NoneV \/ description = NoneV

\* the guarded call of the classifier API: the class of the reply if it is an
\* allowed one; a failed call or another reply is logged and gives the default
CallClassifierRaw(reply) == IF reply = "error" THEN DefaultIfMissing ELSE ReplyClass(reply)
CallClassifier(reply) ==
    IF reply = "error" THEN DefaultIfMissing
    ELSE IF ReplyClass(reply) \in AllowedClasses THEN ReplyClass(reply)
    ELSE DefaultIfMissing

\* what the guarded call logs for a reply
LogClassified == "classified product"
LogClassifyError == "Error classifying product"
ClassifierLog(reply) ==
    IF reply # "error" /\ ReplyClass(reply) \in AllowedClasses
    THEN LogClassified ELSE LogClassifyError

\* Processor.classify(prompt, url, name, description)
Classify(name, description, reply) ==
    IF MissingFields(name, description) THEN DefaultIfMissing
    ELSE CallClassifier(reply)

\* product.classifications[key] = value
DictSet(dict, key, value) ==
    [k \in (DOMAIN dict) \cup {key} |-> IF k = key THEN value ELSE dict[k]]

\* --------------------------------------------------------------- workers
Head1(s) == Head(queues[s])

\* a worker takes its sentinel: task_done() and break
TakeSentinel(s, i, endstate) ==
    /\ wstate[s][i] = "idle"
    /\ queues[s] # <<>>
    /\ Head1(s) = Sentinel
    /\ queues' = QGet(queues, s)
    /\ unfinished' = TaskDone(unfinished, s)
    /\ wstate' = [wstate EXCEPT ![s][i] = endstate]
    /\ took' = [took EXCEPT ![s][i] = @ + 1]
    /\ UNCHANGED <<cfg, deepness, previously_collected_urls, prompts, pc, nwk, held, wstep, collected_urls_current_run,
                   collected_urls_previous_runs, collected, logged, sent, created, crashes, stub, calls_left, framework, serp_puts, enr, ret, rq>>

\* _serp_execute: get a search task and call SerpApi.apply
SerpGet(i) ==
    /\ wstate.serp[i] = "idle"
    /\ queues.serp # <<>>
    /\ Head1("serp") # Sentinel
    /\ queues' = QGet(queues, "serp")
    /\ held' = [held EXCEPT !.serp[i] = Head1("serp")]
    /\ wstate' = [wstate EXCEPT !.serp[i] = "busy"]
    /\ UNCHANGED <<cfg, deepness, previously_collected_urls, prompts, pc, nwk, unfinished, wstep,
                   collected_urls_current_run, collected_urls_previous_runs, collected, logged, sent, took, created,
                   crashes, stub, calls_left, framework, serp_puts, enr, ret, rq>>

\* the search worker after a task: the guard absorbs an error of the search,
\* the task is acknowledged and the loop goes on
LogSerpError == "Error executing SERP API search"
AfterSerpTaskRaising(out) == IF out.ok THEN "idle" ELSE "crashed"
AfterSerpTask(out) == "idle"

\* the current-run set after a search worker has built its products: the
\* worker does not record their urls
SeenAfterSearchAdds(items) ==
    collected_urls_current_run \cup { items[j].url : j \in 1..Len(items) }
SeenAfterSearch(items) == collected_urls_current_run

\* _serp_execute: the search returned (or raised); wrap and forward the results
SerpDone(i) ==
    /\ wstate.serp[i] = "busy"
    /\ \E out \in SerpApply(held.serp[i]) :
         LET n == IF out.ok THEN Len(out.results) ELSE 0
             items == [j \in 1..n |->
                         ProductItem(created + j, held.serp[i].search_term, out.results[j])]
         IN /\ queues' = QPut(queues, "url", items)
            /\ collected_urls_current_run' = SeenAfterSearch(items)
            /\ unfinished' = TaskDone(UPut(unfinished, "url", n), "serp")
            /\ created' = created + n
            /\ logged' = IF out.ok THEN logged
                          ELSE logged \cup {<<LogSerpError, held.serp[i].search_term>>}
            /\ wstate' = [wstate EXCEPT !.serp[i] = AfterSerpTask(out)]
    /\ held' = [held EXCEPT !.serp[i] = NoEntry]
    /\ UNCHANGED <<cfg, deepness, previously_collected_urls, prompts, pc, nwk, wstep,
                   collected_urls_previous_runs, collected, sent, took, crashes, stub, calls_left, framework, serp_puts, enr, ret, rq>>

\* the dedup decision of _collect_url for one product
SeenAddNever(product) == collected_urls_current_run
SeenAdd(product) ==
    IF ~product.filtered /\ product.url \notin collected_urls_current_run /\ product.url \notin collected_urls_previous_runs
    THEN collected_urls_current_run \cup {product.url} ELSE collected_urls_current_run

DedupNoStage(product) ==
    IF product.filtered THEN product
    ELSE IF product.url \in collected_urls_current_run \/ product.url \in collected_urls_previous_runs
    THEN [product EXCEPT !.filtered = TRUE]
    ELSE product
Dedup(product) ==
    IF product.filtered THEN product
    ELSE IF product.url \in collected_urls_current_run
    THEN [product EXCEPT !.filtered = TRUE, !.filtered_at_stage = StageCurrentRun]
    ELSE IF product.url \in collected_urls_previous_runs
    THEN [product EXCEPT !.filtered = TRUE, !.filtered_at_stage = StagePreviousRun]
    ELSE product

\* _collect_url: one iteration for a product (no suspension inside)
CollectUrl ==
    /\ wstate.url[1] = "idle"
    /\ queues.url # <<>>
    /\ Head1("url") # Sentinel
    /\ LET product == Head1("url")
       IN /\ collected_urls_current_run' = SeenAdd(product)
          /\ queues' = [queues EXCEPT !.url = Tail(@), !.zyte = Append(@, Dedup(product))]
          /\ unfinished' = TaskDone(UPut(unfinished, "zyte", 1), "url")
    /\ UNCHANGED <<cfg, deepness, previously_collected_urls, prompts, pc, nwk, wstate, held, wstep,
                   collected_urls_previous_runs, collected, logged, sent, took, created, crashes, stub, calls_left, framework, serp_puts, enr, ret, rq>>

\* a filtered product skips the detail fetch
SkipDetailsNever(product) == FALSE
SkipDetails(product) == product.filtered

\* _zyte_execute: get a product; a filtered one is forwarded at once, for the
\* others ZyteApi.get_details is called
ZyteGet(i) ==
    /\ wstate.zyte[i] = "idle"
    /\ queues.zyte # <<>>
    /\ Head1("zyte") # Sentinel
    /\ LET product == Head1("zyte")
       IN IF SkipDetails(product)
          THEN /\ queues' = [queues EXCEPT !.zyte = Tail(@), !.proc = Append(@, product)]
               /\ unfinished' = TaskDone(UPut(unfinished, "proc", 1), "zyte")
               /\ UNCHANGED <<held, wstate>>
          ELSE /\ queues' = QGet(queues, "zyte")
               /\ held' = [held EXCEPT !.zyte[i] = product]
               /\ wstate' = [wstate EXCEPT !.zyte[i] = "busy"]
               /\ UNCHANGED unfinished
    /\ UNCHANGED <<cfg, deepness, previously_collected_urls, prompts, pc, nwk, wstep, collected_urls_current_run,
                   collected_urls_previous_runs, collected, logged, sent, took, created, crashes, stub, calls_left, framework, serp_puts, enr, ret, rq>>

\* the product when get_details raised: the guard is left before any field
\* was assigned
OnDetailErrorFiltered(product) ==
    [product EXCEPT !.filtered = TRUE, !.filtered_at_stage = StageZyte]
OnDetailError(product) == product

\* the product after get_details returned details (or raised)
WithDetailsUnfiltered(product, details) ==
    IF ~details.ok THEN OnDetailError(product)
    ELSE [product EXCEPT !.product_name = details.name,
                         !.product_price = details.price,
                         !.product_description = details.description,
                         !.product_images = details.images,
                         !.probability = details.probability]
WithDetails(product, details) ==
    IF ~details.ok THEN OnDetailError(product)
    ELSE LET p == [product EXCEPT !.product_name = details.name,
                                  !.product_price = details.price,
                                  !.product_description = details.description,
                                  !.product_images = details.images,
                                  !.probability = details.probability]
         IN IF KeepProduct(details) THEN p
            ELSE [p EXCEPT !.filtered = TRUE, !.filtered_at_stage = StageZyte]

LogZyteError == "Error executing Zyte API search"

\* _zyte_execute: the details arrived (or the call raised); forward the product
ZyteDone(i) ==
    /\ wstate.zyte[i] = "busy"
    /\ \E details \in GetDetails(held.zyte[i].url) :
         /\ queues' = QPut(queues, "proc", <<WithDetails(held.zyte[i], details)>>)
         /\ logged' = IF details.ok THEN logged
                       ELSE logged \cup {<<LogZyteError, held.zyte[i].id>>}
    /\ unfinished' = TaskDone(UPut(unfinished, "proc", 1), "zyte")
    /\ held' = [held EXCEPT !.zyte[i] = NoEntry]
    /\ wstate' = [wstate EXCEPT !.zyte[i] = "idle"]
    /\ UNCHANGED <<cfg, deepness, previously_collected_urls, prompts, pc, nwk, wstep, collected_urls_current_run,
                   collected_urls_previous_runs, collected, sent, took, created, crashes, stub, calls_left, framework, serp_puts, enr, ret, rq>>

\* _proc_execute: "if not product.filtered" decides whether the prompt loop
\* is entered
SkipClassifyNever(product) == FALSE
SkipClassify(product) == product.filtered

\* _proc_execute: get a product; filtered ones (and the case of no prompts)
\* are forwarded at once, for the others the prompt loop starts
ProcGet(i) ==
    /\ wstate.proc[i] = "idle"
    /\ queues.proc # <<>>
    /\ Head1("proc") # Sentinel
    /\ LET product == Head1("proc")
       IN IF SkipClassify(product) \/ prompts = <<>>
          THEN /\ queues' = [queues EXCEPT !.proc = Tail(@), !.res = Append(@, product)]
               /\ unfinished' = TaskDone(UPut(unfinished, "res", 1), "proc")
               /\ UNCHANGED <<held, wstate, wstep>>
          ELSE /\ queues' = QGet(queues, "proc")
               /\ held' = [held EXCEPT !.proc[i] = product]
               /\ wstate' = [wstate EXCEPT !.proc[i] = "busy"]
               /\ wstep' = [wstep EXCEPT ![i] = 1]
               /\ UNCHANGED unfinished
    /\ UNCHANGED <<cfg, deepness, previously_collected_urls, prompts, pc, nwk, collected_urls_current_run,
                   collected_urls_previous_runs, collected, logged, sent, took, created, crashes, stub, calls_left, framework, serp_puts, enr, ret, rq>>

\* the key under which _proc_execute stores the classification of a prompt
ClassKeyFixed(k) == "P1"
ClassKey(k) == prompts[k]

\* _proc_execute: Processor.classify returned for the current prompt; after
\* the last prompt the product is forwarded
ProcStep(i) ==
    /\ wstate.proc[i] = "busy"
    /\ \E reply \in ClassifierReplies :
         LET product == held.proc[i]
             c == Classify(product.product_name, product.product_description, reply)
             p == [product EXCEPT
                     !.classifications = DictSet(@, ClassKey(wstep[i]), c)]
         IN /\ logged' = IF MissingFields(product.product_name, product.product_description)
                          THEN logged
                          ELSE logged \cup {<<ClassifierLog(reply), product.id>>}
            /\ IF wstep[i] < Len(prompts)
               THEN /\ held' = [held EXCEPT !.proc[i] = p]
                    /\ wstep' = [wstep EXCEPT ![i] = @ + 1]
                    /\ UNCHANGED <<queues, unfinished, wstate>>
               ELSE /\ queues' = QPut(queues, "res", <<p>>)
                    /\ unfinished' = TaskDone(UPut(unfinished, "res", 1), "proc")
                    /\ held' = [held EXCEPT !.proc[i] = NoEntry]
                    /\ wstate' = [wstate EXCEPT !.proc[i] = "idle"]
                    /\ wstep' = [wstep EXCEPT ![i] = 0]
    /\ UNCHANGED <<cfg, deepness, previously_collected_urls, prompts, pc, nwk, collected_urls_current_run,
                   collected_urls_previous_runs, collected, sent, took, created, crashes, stub, calls_left, framework, serp_puts, enr, ret, rq>>

\* products.append(product.model_dump())
CollectUnfiltered(products, product) ==
    IF product.filtered THEN products ELSE Append(products, product)
Collect(products, product) == Append(products, product)

\* FraudCrawlerClient._collect_results: one product is appended to products
ResGet ==
    /\ wstate.res[1] = "idle"
    /\ queues.res # <<>>
    /\ Head1("res") # Sentinel
    /\ collected' = Collect(collected, Head1("res"))
    /\ queues' = QGet(queues, "res")
    /\ unfinished' = TaskDone(unfinished, "res")
    /\ UNCHANGED <<cfg, deepness, previously_collected_urls, prompts, pc, nwk, wstate, held, wstep,
                   collected_urls_current_run, collected_urls_previous_runs, logged, sent, took, created, crashes, stub, calls_left, framework, serp_puts, enr, ret, rq>>

\* FraudCrawlerClient._collect_results after the loop: the csv is written,
\* which succeeds or raises
ResSave(ok) ==
    /\ wstate.res[1] = "saving"
    /\ wstate' = [wstate EXCEPT !.res[1] = IF ok THEN "done" ELSE "failed"]
    /\ UNCHANGED <<cfg, deepness, previously_collected_urls, prompts, pc, nwk, queues, unfinished,
                   held, wstep, collected_urls_current_run, collected_urls_previous_runs, collected, logged, sent, took,
                   created, crashes, stub, calls_left, framework, serp_puts, enr, ret, rq>>

\* the sentinel branch of the five worker loops
SentinelGet(s, i) == TakeSentinel(s, i, IF s = "res" THEN "saving" ELSE "done")

\* a fatal error escapes the per-item guard of a worker that waits for its
\* collaborator: the task ends, the entry it holds is never acknowledged
Crash(s, i) ==
    /\ crashes < MaxCrashes
    /\ s \in {"serp", "zyte", "proc"}
    /\ wstate[s][i] = "busy"
    /\ wstate' = [wstate EXCEPT ![s][i] = "crashed"]
    /\ crashes' = crashes + 1
    /\ UNCHANGED <<cfg, deepness, previously_collected_urls, prompts, pc, nwk, queues, unfinished,
                   held, wstep, collected_urls_current_run, collected_urls_previous_runs, collected, logged, sent, took,
                   created, stub, calls_left, framework, serp_puts, enr, ret, rq>>

\* the same for the two single workers, whose loops have no guard at all: the
\* error strikes right after get() returned a product
CrashAtGet(s) ==
    /\ crashes < MaxCrashes
    /\ s \in {"url", "res"}
    /\ wstate[s][1] = "idle"
    /\ queues[s] # <<>>
    /\ Head1(s) # Sentinel
    /\ queues' = QGet(queues, s)
    /\ held' = [held EXCEPT ![s][1] = Head1(s)]
    /\ wstate' = [wstate EXCEPT ![s][1] = "crashed"]
    /\ crashes' = crashes + 1
    /\ UNCHANGED <<cfg, deepness, previously_collected_urls, prompts, pc, nwk, unfinished, wstep,
                   collected_urls_current_run, collected_urls_previous_runs, collected, logged, sent, took, created, stub, calls_left, framework, serp_puts, enr, ret, rq>>

\* ------------------------------------------------------------ Enricher.apply
Keyword(t, v) == [text |-> t, volume |-> v]

\* the keywords a DataForSEO response may hold, the seed term among them
KeywordTexts == {"seed", "a", "b"}
Volumes == {1, 2}
KeywordLists ==
    UNION { [1..n -> { Keyword(t, v) : t \in KeywordTexts, v \in Volumes }] :
              n \in 0..MaxKeywords }
NTermsSet == 0..(MaxKeywords + 1)

\* [kw for kw in suggested + related if kw.text != search_term]
WithoutTermKeepAll(kws, term) == kws
WithoutTerm(kws, term) == SelectSeq(kws, LAMBDA kw : kw.text # term)

\* kw_vol[kw.text] = max(kw.volume, kw_vol[kw.text]) on a defaultdict(int):
\* one entry per text in the order of first occurrence, with the largest volume
RECURSIVE KwVol(_, _)
KwVol(kws, acc) ==
    IF kws = <<>> THEN acc
    ELSE LET kw == Head(kws)
             at == { k \in 1..Len(acc) : acc[k].text = kw.text }
         IN IF at = {}
            THEN KwVol(Tail(kws), Append(acc, Keyword(kw.text, IF kw.volume > 0 THEN kw.volume ELSE 0)))
            ELSE LET k == CHOOSE x \in at : TRUE
                 IN KwVol(Tail(kws),
                          [acc EXCEPT ![k].volume = IF kw.volume > @ THEN kw.volume ELSE @])

\* sorted(keywords, key=volume, reverse=True): stable, so equal volumes keep
\* their order
RECURSIVE SortedByVolume(_, _)
SortedByVolumeNot(kws, acc) == kws
SortedByVolume(kws, acc) ==
    IF kws = <<>> THEN acc
    ELSE LET kw == Head(kws)
             before == SelectSeq(acc, LAMBDA x : x.volume >= kw.volume)
             after == SelectSeq(acc, LAMBDA x : x.volume < kw.volume)
         IN SortedByVolume(Tail(kws), before \o <<kw>> \o after)

\* keywords[:n_terms]
TopNot(kws, n) == kws
Top(kws, n) == SubSeq(kws, 1, Min(n, Len(kws)))

\* Enricher.apply up to the request for suggested keywords
EnrCall(n) ==
    /\ enr.op = "idle"
    /\ enr' = [EnrIdle EXCEPT !.op = "suggested", !.search_term = "seed", !.n_terms = n]
    /\ UNCHANGED <<cfg, deepness, previously_collected_urls, prompts, pc, nwk, queues, unfinished,
                   wstate, held, wstep, collected_urls_current_run, collected_urls_previous_runs,
                   collected, logged, sent, took, created, crashes, stub, calls_left, framework,
                   serp_puts, ret, rq>>

\* _get_suggested_keywords returned the keywords of the response
EnrSuggested(kws) ==
    /\ enr.op = "suggested"
    /\ enr' = [enr EXCEPT !.op = "related", !.suggested = kws]
    /\ UNCHANGED <<cfg, deepness, previously_collected_urls, prompts, pc, nwk, queues, unfinished,
                   wstate, held, wstep, collected_urls_current_run, collected_urls_previous_runs,
                   collected, logged, sent, took, created, crashes, stub, calls_left, framework,
                   serp_puts, ret, rq>>

\* _get_related_keywords returned; apply aggregates, sorts, truncates, returns
EnrRelated(kws) ==
    /\ enr.op = "related"
    /\ LET keywords == WithoutTerm(enr.suggested \o kws, enr.search_term)
           ranked == SortedByVolume(KwVol(keywords, <<>>), <<>>)
           top == Top(ranked, enr.n_terms)
       IN enr' = [enr EXCEPT !.op = "returned", !.related = kws,
                             !.terms = [k \in 1..Len(top) |-> top[k].text]]
    /\ UNCHANGED <<cfg, deepness, previously_collected_urls, prompts, pc, nwk, queues, unfinished,
                   wstate, held, wstep, collected_urls_current_run, collected_urls_previous_runs,
                   collected, logged, sent, took, created, crashes, stub, calls_left, framework,
                   serp_puts, ret, rq>>

\* the post of _get_suggested_keywords or of _get_related_keywords raised:
\* the unbound keywords variable makes apply raise
EnrPostFails ==
    /\ enr.op \in {"suggested", "related"}
    /\ enr' = [enr EXCEPT !.op = "raised"]
    /\ UNCHANGED <<cfg, deepness, previously_collected_urls, prompts, pc, nwk, queues, unfinished,
                   wstate, held, wstep, collected_urls_current_run, collected_urls_previous_runs,
                   collected, logged, sent, took, created, crashes, stub, calls_left, framework,
                   serp_puts, ret, rq>>

\* the application calls apply again
EnrReset ==
    /\ enr.op \in {"returned", "raised"}
    /\ enr' = EnrIdle
    /\ UNCHANGED <<cfg, deepness, previously_collected_urls, prompts, pc, nwk, queues, unfinished,
                   wstate, held, wstep, collected_urls_current_run, collected_urls_previous_runs,
                   collected, logged, sent, took, created, crashes, stub, calls_left, framework,
                   serp_puts, ret, rq>>

\* ---------------------------------------------------- Assessor.keep_product
\* a product url after "http://example": dotted labels ("ch" is ".ch") and
\* slashes
UrlLabels == {"ch", "CH", "com", "community", "de", "/"}
Urls == UNION { [1..n -> UrlLabels] : n \in 1..MaxLabels }
\* Location.lower_code has lower-cased the country code
CountryCodes == {"ch", "com"}
\* probability and threshold in percent
Probabilities == {NoProbability, 10, 50, 60}
Thresholds == {10, 60}

\* str.lower() of a label
LowerLabel(label) == IF label = "CH" THEN "ch" ELSE label

\* ".com" in url.lower(): the label starts with "com"
HasDotCom(url) == \E k \in 1..Len(url) : LowerLabel(url[k]) \in {"com", "community"}

\* _keep_product_country_code
KeepProductCountryCode(url, country_code) ==
    \/ \E k \in 1..(Len(url) - 1) : LowerLabel(url[k]) = country_code /\ url[k + 1] = "/"
    \/ LowerLabel(url[Len(url)]) = country_code
    \/ HasDotCom(url)

\* Assessor.keep_product
AssessorKeepProduct(url, prob, country_code, threshold) ==
    IF ~KeepProductCountryCode(url, country_code) THEN FALSE
    ELSE IF ~KeepProductProbability(prob, threshold) THEN FALSE
    ELSE TRUE

\* the calls of keep_product(product, country_code, threshold) to make
KeepProductArgs ==
    { [op |-> "keep_product", url |-> url, probability |-> prob, country_code |-> cc,
       threshold |-> th, done |-> FALSE, result |-> FALSE] :
        url \in Urls, prob \in Probabilities, cc \in CountryCodes, th \in Thresholds }

\* keep_product(product, country_code, threshold) returns
KeepProductCall ==
    /\ ret.op = "keep_product"
    /\ ~ret.done
    /\ ret' = [ret EXCEPT !.done = TRUE,
                          !.result = AssessorKeepProduct(ret.url, ret.probability,
                                                         ret.country_code, ret.threshold)]
    /\ UNCHANGED <<cfg, deepness, previously_collected_urls, prompts, pc, nwk, queues, unfinished,
                   wstate, held, wstep, collected_urls_current_run, collected_urls_previous_runs,
                   collected, logged, sent, took, created, crashes, stub, calls_left, framework,
                   serp_puts, enr, rq>>

\* the calls of the probability filter alone
KeepProductProbabilityArgs ==
    { [op |-> "_keep_product_probability", probability |-> prob, threshold |-> th,
       done |-> FALSE, result |-> FALSE] :
        prob \in Probabilities, th \in Thresholds }

\* _keep_product_probability(product, threshold) returns
KeepProductProbabilityCall ==
    /\ ret.op = "_keep_product_probability"
    /\ ~ret.done
    /\ ret' = [ret EXCEPT !.done = TRUE,
                          !.result = KeepProductProbability(ret.probability, ret.threshold)]
    /\ UNCHANGED <<cfg, deepness, previously_collected_urls, prompts, pc, nwk, queues, unfinished,
                   wstate, held, wstep, collected_urls_current_run, collected_urls_previous_runs,
                   collected, logged, sent, took, created, crashes, stub, calls_left, framework,
                   serp_puts, enr, rq>>

\* --------------------------------------------------------------------- Host
\* a string is its sequence of characters
Chars == {"a", "A", " ", ","}
Strings == UNION { [1..n -> Chars] : n \in 0..MaxStrLen }
\* the domains argument: a string or a list of strings
DomainsArgs ==
    { [isstr |-> TRUE, val |-> str] : str \in Strings }
    \cup { [isstr |-> FALSE, val |-> list] :
             list \in { <<>>, << <<"a">> >>, << <<"A">>, <<" ", "a">> >> } }

\* str.split(sep): cur is the piece being read, acc the pieces before it
RECURSIVE Split(_, _, _, _)
Split(str, sep, cur, acc) ==
    IF str = <<>> THEN Append(acc, cur)
    ELSE IF Head(str) = sep THEN Split(Tail(str), sep, <<>>, Append(acc, cur))
    ELSE Split(Tail(str), sep, Append(cur, Head(str)), acc)

RECURSIVE LStrip(_)
LStrip(str) == IF str # <<>> /\ Head(str) = " " THEN LStrip(Tail(str)) ELSE str
Reverse(str) == [k \in 1..Len(str) |-> str[Len(str) + 1 - k]]
\* str.strip()
Strip(str) == Reverse(LStrip(Reverse(LStrip(str))))

\* Host.split_domains_if_str
SplitDomainsIfStr(arg) ==
    IF arg.isstr
    THEN LET pieces == Split(arg.val, ",", <<>>, <<>>)
         IN [k \in 1..Len(pieces) |-> Strip(pieces[k])]
    ELSE arg.val

\* the constructions Host(name=..., domains=arg) to make
HostArgs == { [op |-> "Host", arg |-> arg, done |-> FALSE, domains |-> <<>>] : arg \in DomainsArgs }

\* Host(name=..., domains=arg) is constructed: the validator has run
HostCall ==
    /\ ret.op = "Host"
    /\ ~ret.done
    /\ ret' = [ret EXCEPT !.done = TRUE, !.domains = SplitDomainsIfStr(ret.arg)]
    /\ UNCHANGED <<cfg, deepness, previously_collected_urls, prompts, pc, nwk, queues, unfinished,
                   wstate, held, wstep, collected_urls_current_run, collected_urls_previous_runs,
                   collected, logged, sent, took, created, crashes, stub, calls_left, framework,
                   serp_puts, enr, rq>>

\* ---------------------------------------------------------- filter_keywords
\* a keyword is its sequence of words
Words == {"buy", "risk", "brisk", "gefahr"}
KeywordStrings == UNION { [1..n -> Words] : n \in 1..MaxWords }
\* words of the four blacklists
Blacklist == {"risk", "gefahr", "danger"}
\* blacklisted_word in keyword, for one word of the keyword: a substring test
InWord(blacklisted_word, word) ==
    blacklisted_word = word \/ (blacklisted_word = "risk" /\ word = "brisk")
\* any(blacklisted_word in keyword for blacklisted_word in blacklist)
AnyBlacklisted(keyword) ==
    \E blacklisted_word \in Blacklist :
        \E k \in 1..Len(keyword) : InWord(blacklisted_word, keyword[k])

\* the values filter_keywords returns: None, or a keyword
ReturnNone == [none |-> TRUE, value |-> <<>>]
ReturnKeyword(keyword) == [none |-> FALSE, value |-> keyword]

\* filter_keywords(keyword)
FilterKeywords(keyword) ==
    IF ~AnyBlacklisted(keyword) THEN ReturnNone ELSE ReturnKeyword(keyword)

\* the calls of filter_keywords to make
FilterKeywordsArgs ==
    { [op |-> "filter_keywords", keyword |-> keyword, done |-> FALSE, result |-> ReturnNone] :
        keyword \in KeywordStrings }

\* filter_keywords(keyword) returns
FilterKeywordsCall ==
    /\ ret.op = "filter_keywords"
    /\ ~ret.done
    /\ ret' = [ret EXCEPT !.done = TRUE, !.result = FilterKeywords(ret.keyword)]
    /\ UNCHANGED <<cfg, deepness, previously_collected_urls, prompts, pc, nwk, queues, unfinished,
                   wstate, held, wstep, collected_urls_current_run, collected_urls_previous_runs,
                   collected, logged, sent, took, created, crashes, stub, calls_left, framework,
                   serp_puts, enr, rq>>

\* ----------------------------------------------------------- SerpApi.search
\* err and the raised error: None, the error of the k-th request (k), or the
\* UnboundLocalError of reading response before any assignment
NoError == 0
UnboundLocalError == -1

\* the JSON a successful request returns: with or without "organic_results"
Links == {"u1", "u2"}
Responses ==
    { [organic_results |-> TRUE, links |-> l] :
        l \in UNION { [1..n -> Links] : n \in 0..MaxNumResults } }
    \cup { [organic_results |-> FALSE, links |-> <<>>] }

\* [res.get("link") for res in response.get("organic_results", [])]
ResultUrls(response) == IF response.organic_results THEN response.links ELSE <<>>

\* the calls of search to make: attempts = 0, err = None, response not bound
SearchArgs ==
    { [op |-> "search", max_retries |-> m, answer |-> r, attempts |-> 0, err |-> NoError,
       bound |-> FALSE, gets |-> 0, sleeps |-> 0, state |-> "loop", raised |-> NoError,
       urls |-> <<>>] :
        m \in 0..MaxRetries, r \in Responses }

\* one pass of the while loop: the request, then break, or err = e,
\* attempts += 1 and the sleep
SearchAttempt ==
    /\ rq.op = "search"
    /\ rq.state = "loop"
    /\ ~rq.bound
    /\ rq.attempts < rq.max_retries
    /\ \E ok \in BOOLEAN :
        rq' = IF ok
              THEN [rq EXCEPT !.gets = @ + 1, !.bound = TRUE]
              ELSE [rq EXCEPT !.gets = @ + 1, !.err = rq.gets + 1, !.attempts = @ + 1,
                              !.sleeps = IF rq.attempts + 1 < rq.max_retries THEN @ + 1 ELSE @]
    /\ UNCHANGED <<cfg, deepness, previously_collected_urls, prompts, pc, nwk, queues, unfinished,
                   wstate, held, wstep, collected_urls_current_run, collected_urls_previous_runs,
                   collected, logged, sent, took, created, crashes, stub, calls_left, framework,
                   serp_puts, enr, ret>>

\* after the loop: raise err, or read response and return the urls
SearchEnd ==
    /\ rq.op = "search"
    /\ rq.state = "loop"
    /\ rq.bound \/ rq.attempts >= rq.max_retries
    /\ rq' = IF rq.err # NoError
              THEN [rq EXCEPT !.state = "raised", !.raised = rq.err]
              ELSE IF ~rq.bound
              THEN [rq EXCEPT !.state = "raised", !.raised = UnboundLocalError]
              ELSE [rq EXCEPT !.state = "returned", !.urls = ResultUrls(rq.answer)]
    /\ UNCHANGED <<cfg, deepness, previously_collected_urls, prompts, pc, nwk, queues, unfinished,
                   wstate, held, wstep, collected_urls_current_run, collected_urls_previous_runs,
                   collected, logged, sent, took, created, crashes, stub, calls_left, framework,
                   serp_puts, enr, ret>>

\* ------------------------------------------------ SerpApiClient.call_serpapi
\* max_retries = 5
SerpapiMaxRetries == 5

\* what one pass of the try block does: get_response or raise_for_status
\* raises; the status is good and response.json() raises; all of it succeeds
Outcomes == {"error", "json", "ok"}

\* the calls of call_serpapi to make, with and without a callback
CallSerpapiArgs ==
    { [op |-> "call_serpapi", callback |-> c, attempts |-> 0, gets |-> 0, callbacks |-> 0,
       sleeps |-> 0, state |-> "loop", json |-> 0] : c \in BOOLEAN }

\* callback(1) when a callback is given
Callback(r) == IF r.callback THEN r.callbacks + 1 ELSE r.callbacks

\* one pass of the while loop: request, raise_for_status, callback(1) and
\* return response.json(); any exception: attempts += 1 and the sleep
CallSerpapiAttempt ==
    /\ rq.op = "call_serpapi"
    /\ rq.state = "loop"
    /\ rq.attempts < SerpapiMaxRetries
    /\ \E outcome \in Outcomes :
        rq' = CASE outcome = "ok" ->
                     [rq EXCEPT !.gets = @ + 1, !.callbacks = Callback(rq),
                                !.state = "returned", !.json = rq.gets + 1]
                [] outcome = "json" ->
                     [rq EXCEPT !.gets = @ + 1, !.callbacks = Callback(rq),
                                !.attempts = @ + 1, !.sleeps = @ + 1]
                [] outcome = "error" ->
                     [rq EXCEPT !.gets = @ + 1, !.attempts = @ + 1, !.sleeps = @ + 1]
    /\ UNCHANGED <<cfg, deepness, previously_collected_urls, prompts, pc, nwk, queues, unfinished,
                   wstate, held, wstep, collected_urls_current_run, collected_urls_previous_runs,
                   collected, logged, sent, took, created, crashes, stub, calls_left, framework,
                   serp_puts, enr, ret>>

\* after the loop: raise Exception("All API call attempts to SerpAPI failed.")
CallSerpapiEnd ==
    /\ rq.op = "call_serpapi"
    /\ rq.state = "loop"
    /\ rq.attempts >= SerpapiMaxRetries
    /\ rq' = [rq EXCEPT !.state = "raised"]
    /\ UNCHANGED <<cfg, deepness, previously_collected_urls, prompts, pc, nwk, queues, unfinished,
                   wstate, held, wstep, collected_urls_current_run, collected_urls_previous_runs,
                   collected, logged, sent, took, created, crashes, stub, calls_left, framework,
                   serp_puts, enr, ret>>

\* ------------------------------------------------------------ specification
RunStep ==
    \/ \E d \in DeepnessSet, pa \in PrevLists, ps \in PromptLists : RunStart(d, pa, ps)
    \/ \E t \in 0..MaxTerms : RunEnriched(t)
    \/ RunEnrichRaises
    \/ \E i \in 1..5 : RunGather(i)
    \/ \E i \in 1..5 : RunJoin(i)

WorkerStep ==
    \/ \E s \in StageSet, i \in WorkerIds : SentinelGet(s, i)
    \/ \E i \in WorkerIds : SerpGet(i)
    \/ \E i \in WorkerIds : SerpDone(i)
    \/ CollectUrl
    \/ \E i \in WorkerIds : ZyteGet(i)
    \/ \E i \in WorkerIds : ZyteDone(i)
    \/ \E i \in WorkerIds : ProcGet(i)
    \/ \E i \in WorkerIds : ProcStep(i)
    \/ ResGet
    \/ \E ok \in BOOLEAN : ResSave(ok)

FaultStep ==
    \/ \E s \in StageSet, i \in WorkerIds : Crash(s, i)
    \/ \E s \in StageSet : CrashAtGet(s)

Next == RunStep \/ WorkerStep \/ FaultStep

Spec == Init /\ [][Next]_vars

\* Scenario B: stubbed collaborators
SpecB == InitB /\ [][Next]_vars

\* several calls of run() on the same Orchestrator
SpecRuns == InitRuns /\ [][Next]_vars

\* calls of Enricher.apply on their own
InitEnrich ==
    /\ InitState
    /\ cfg = [serp |-> 1, zyte |-> 1, proc |-> 1]
    /\ stub = "free"
    /\ calls_left = 0
    /\ ret = NoCall /\ rq = NoRequest
NextEnrich ==
    \/ \E n \in NTermsSet : EnrCall(n)
    \/ \E kws \in KeywordLists : EnrSuggested(kws)
    \/ \E kws \in KeywordLists : EnrRelated(kws)
    \/ EnrPostFails
    \/ EnrReset
SpecEnrich == InitEnrich /\ [][NextEnrich]_vars

\* keep_product, Host(...) and filter_keywords alone: one call with any
\* arguments
InitCalls ==
    /\ InitState
    /\ cfg = [serp |-> 1, zyte |-> 1, proc |-> 1]
    /\ stub = "free"
    /\ calls_left = 0
    /\ ret \in KeepProductArgs \cup KeepProductProbabilityArgs \cup HostArgs
                \cup FilterKeywordsArgs
    /\ rq = NoRequest
NextCalls ==
    \/ KeepProductCall
    \/ KeepProductProbabilityCall
    \/ HostCall
    \/ FilterKeywordsCall
SpecCalls == InitCalls /\ [][NextCalls]_vars

\* SerpApi.search and call_serpapi alone: one call with any arguments
InitRetry ==
    /\ InitState
    /\ cfg = [serp |-> 1, zyte |-> 1, proc |-> 1]
    /\ stub = "free"
    /\ calls_left = 0
    /\ ret = NoCall
    /\ rq \in SearchArgs \cup CallSerpapiArgs
NextRetry ==
    \/ SearchAttempt
    \/ SearchEnd
    \/ CallSerpapiAttempt
    \/ CallSerpapiEnd
SpecRetry == InitRetry /\ [][NextRetry]_vars

\* no worker escapes its per-item guard, every enabled step is eventually taken
NextGuarded == RunStep \/ WorkerStep
LiveSpec == Init /\ [][NextGuarded]_vars /\ WF_vars(NextGuarded)

TypeOK ==
    /\ pc.op \in {"idle", "enrich", "gather", "join", "done", "raised"}
    /\ \A s \in StageSet : unfinished[s] >= 0

\* ------------------------------------------------------------------ claims
Unfiltered(seq) == { k \in 1..Len(seq) : ~seq[k].filtered }
ItemsOf(seq) == { seq[k] : k \in 1..Len(seq) } \ {Sentinel}
HeldBy(s, state) == { held[s][i] : i \in { x \in WorkerIds : wstate[s][x] = state } }
Spawned(s) == { i \in WorkerIds : i <= nwk[s] }
RunReturned == pc.op = "done"
\* run() has passed the drain barrier of stage number i
PastBarrier(i) == RunReturned \/ (pc.op \in {"gather", "join"} /\ pc.i > i)
\* run() has enqueued the sentinels of stage number i
SentinelsDue(i) == RunReturned \/ (pc.op \in {"gather", "join"} /\ pc.i >= i)
\* the products that left ClassifyStage
Classified == ItemsOf(queues.res) \cup ItemsOf(collected) \cup HeldBy("res", "crashed")
\* the products that left DetailStage
Detailed == ItemsOf(queues.proc) \cup HeldBy("proc", "busy") \cup HeldBy("proc", "crashed")
            \cup Classified
Ids(items) == { p.id : p \in items }

RunRaised == pc.op = "raised"
\* C1: the sentinels of a stage are only enqueued when every worker of the
\* stage before it has ended and that stage's queue has no unacknowledged entry
C1_StageBarrier ==
    \A i \in 1..4 :
        sent[Stages[i + 1]] > 0 =>
            /\ GatherReady(Stages[i])
            /\ unfinished[Stages[i]] = 0
            /\ queues[Stages[i]] = <<>>

\* the detail stage got its sentinels after the dedup stage forwarded products
C1_Witness ==
    /\ sent.zyte = 2
    /\ wstate.url[1] = "done"
    /\ created = 2

\* C2: when run() has returned all queues are empty and fully acknowledged,
\* every worker task has ended and the collector received every product the
\* search workers created
C2_NothingMidPipeline ==
    RunReturned =>
        /\ \A s \in StageSet : queues[s] = <<>> /\ unfinished[s] = 0
        /\ \A s \in StageSet : GatherReady(s)
        /\ Ids(ItemsOf(collected)) = 1..created
        /\ Len(collected) = created

\* run() returned after two products went through, one of them filtered
C2_Witness ==
    /\ RunReturned
    /\ created = 2
    /\ \E k \in 1..Len(collected) : collected[k].filtered

\* C3: without fatal worker errors and under fair scheduling run() returns
\* (an end of run() with the exception of a failed enrichment is not counted
\* as a violation here, so a behaviour that violates this never ends at all)
C3_Termination == <>(RunReturned \/ RunRaised)

\* C4: run() enqueues as many sentinels per stage as it spawned workers, a
\* worker that left its loop regularly consumed exactly one sentinel, and no
\* sentinel is left when run() has returned
C4_SentinelAccounting ==
    /\ \A i \in 1..5 :
         sent[Stages[i]] = IF SentinelsDue(i) THEN nwk[Stages[i]] ELSE 0
    /\ \A s \in StageSet, i \in WorkerIds :
         /\ took[s][i] <= 1
         /\ (wstate[s][i] \in {"done", "saving", "failed"}) <=> (took[s][i] = 1)
    /\ RunReturned =>
         /\ \A s \in StageSet : \A k \in 1..Len(queues[s]) : queues[s][k] # Sentinel
         /\ \A s \in StageSet : \A i \in Spawned(s) : took[s][i] = 1

\* run() returned with a stage of two workers
C4_Witness ==
    /\ RunReturned
    /\ nwk.zyte = 2
    /\ took.zyte[1] = 1 /\ took.zyte[2] = 1

\* C5: no two unfiltered items received by the collector in one run carry the
\* same url, whatever the interleaving of the search workers
C5_DedupUniqueness ==
    \A a, b \in Unfiltered(collected) : a # b => collected[a].url # collected[b].url

\* two search workers found the same url and the collector got both items
C5_Witness ==
    /\ nwk.serp = 2
    /\ \E a, b \in 1..Len(collected) :
         /\ collected[a].url = collected[b].url
         /\ collected[a].search_term # collected[b].search_term
         /\ ~collected[a].filtered
         /\ collected[b].filtered_at_stage = StageCurrentRun

\* a step of the dedup worker that forwards a product
DedupForwards ==
    /\ Len(queues'.url) = Len(queues.url) - 1
    /\ Len(queues'.zyte) = Len(queues.zyte) + 1

\* C6: a product that enters DedupStage unfiltered, with a url of the given
\* previously_collected_urls that was not seen in this run, leaves it filtered
\* as a previous-run duplicate
C6_CrossRunDedup ==
    [][ (/\ DedupForwards
         /\ ~Head(queues.url).filtered
         /\ Head(queues.url).url \in previously_collected_urls
         /\ Head(queues.url).url \notin collected_urls_current_run)
        => LET out == queues'.zyte[Len(queues'.zyte)]
           IN out.filtered /\ out.filtered_at_stage = StagePreviousRun ]_vars

C8_CollectedCountIsOne ==
    (stub = "B" /\ RunReturned) => Len(collected) = 1

\* C8 amended: in Scenario B the product for u2 reaches the collector marked
\* as filtered at the confidence threshold, all three products are collected
\* and exactly one of them, for u1, is unfiltered
C8_ScenarioB ==
    (stub = "B" /\ RunReturned) =>
        /\ Len(collected) = 3
        /\ \A k \in 1..3 :
             collected[k].url = "u2" =>
                 collected[k].filtered /\ collected[k].filtered_at_stage = StageZyte
        /\ Cardinality(Unfiltered(collected)) = 1
        /\ \A k \in Unfiltered(collected) : collected[k].url = "u1"

\* Scenario B ran to its end
C8_Witness ==
    /\ stub = "B"
    /\ RunReturned
    /\ \E k \in 1..Len(collected) : collected[k].filtered_at_stage = StageZyte

\* C9: when a worker has left its loop on an error while holding an entry,
\* run() stays before or at the drain barrier of that worker's stage
C9_CrashBlocksBarrier ==
    \A s \in StageSet, i \in WorkerIds :
        wstate[s][i] = "crashed" =>
            /\ ~PastBarrier(StageIndex(s))
            /\ unfinished[s] > 0

\* run() waits at the barrier of the detail stage, one of whose workers crashed
C9_Witness ==
    /\ pc = [op |-> "join", i |-> 3]
    /\ \E i \in WorkerIds : wstate.zyte[i] = "crashed"

\* the workers of a stage have ended, one with an error and one regularly
SiblingSurvived(s) ==
    /\ pc = [op |-> "join", i |-> StageIndex(s)]
    /\ \E i \in WorkerIds : wstate[s][i] = "crashed"
    /\ \E i \in WorkerIds : wstate[s][i] = "done"

\* C10: run() logs a worker's error and goes on to the barrier, the worker is
\* not restarted, and its siblings consume and forward all remaining entries
C10_WorkerErrorIsolation ==
    /\ [](\A s \in StageSet :
            (pc.op = "join" /\ pc.i = StageIndex(s)) =>
                \A i \in WorkerIds : wstate[s][i] = "crashed" => <<s, i>> \in logged)
    /\ [](\A s \in {"serp", "zyte", "proc"} :
            SiblingSurvived(s) => ItemsOf(queues[s]) = {})
    /\ [](SiblingSurvived("zyte") =>
            Ids(Detailed) \cup Ids(HeldBy("zyte", "crashed")) = 1..created)
    /\ [](SiblingSurvived("proc") =>
            Ids(Classified) \cup Ids(HeldBy("proc", "crashed")) = 1..created)
    /\ [][\A s \in StageSet, i \in WorkerIds :
            wstate[s][i] = "crashed" => wstate'[s][i] = "crashed"]_vars

\* a detail worker crashed, its sibling forwarded the other product and ended
C10_Witness ==
    /\ SiblingSurvived("zyte")
    /\ <<"zyte", 1>> \in logged \/ <<"zyte", 2>> \in logged
    /\ created = 2
    /\ Cardinality(Ids(Detailed)) = 1

\* C11: no failure of a collaborator call (search, enrichment, detail fetch,
\* classification) makes run() end with an exception (run() only raises when
\* the check of the setup fails)
C11_NoCollaboratorFailureRaises == ~(RunRaised /\ framework = CompleteFramework)

\* every ProductItem of the run, wherever it is
AllItems ==
    (UNION { ItemsOf(queues[s]) : s \in {"url", "zyte", "proc", "res"} })
    \cup ({ held[s][i] : s \in {"url", "zyte", "proc", "res"}, i \in WorkerIds } \ {NoEntry})
    \cup ItemsOf(collected)

\* C12: for every ProductItem in every state, filtered_at_stage is set if and
\* only if filtered is true
C12_FilterFlag ==
    \A p \in AllItems : (p.filtered_at_stage # NoneV) <=> p.filtered

\* a product passed the threshold unfiltered and another one was marked by
\* the search, as a duplicate or at the threshold
C12_Witness ==
    \E p, q \in AllItems :
        /\ ~p.filtered /\ p.filtered_at_stage = NoneV /\ p.probability # NoProbability
        /\ q.filtered /\ q.filtered_at_stage \in {StageSerp, StageCurrentRun, StageZyte}

\* C13: a product that is filtered stays filtered and keeps its
\* filtered_at_stage in every later step of the run
C13_FilteredMonotonic ==
    [][ \A p \in AllItems : p.filtered =>
          \A q \in AllItems' : q.id = p.id =>
              q.filtered /\ q.filtered_at_stage = p.filtered_at_stage ]_vars

\* a duplicate and a product filtered at the threshold went through the later
\* stages to the collector, unclassified and with their stage unchanged
C13_Witness ==
    /\ \E p \in ItemsOf(collected) :
         /\ p.filtered_at_stage = StageCurrentRun
         /\ p.probability = NoProbability /\ p.classifications = <<>>
    /\ \E p \in ItemsOf(queues.res) :
         /\ p.filtered_at_stage = StageZyte
         /\ p.probability # NoProbability /\ p.classifications = <<>>

\* the products that left DedupStage
Deduped == AllItems \ (ItemsOf(queues.url) \cup {held.url[1]})
\* those of them with url u that entered DedupStage unfiltered
EnteredUnfiltered(u) ==
    { p \in Deduped : p.url = u /\ p.filtered_at_stage # StageSerp }
\* those that also left DedupStage unfiltered
LeftUnfiltered(u) ==
    { p \in EnteredUnfiltered(u) :
        p.filtered_at_stage \notin {StageCurrentRun, StagePreviousRun} }

\* C14: of the k >= 1 products with the same url that entered DedupStage
\* unfiltered in one run, the url not being in the previous-run set, exactly
\* one left it unfiltered and the others left it as current-run duplicates
C14_OneSurvivorPerUrl ==
    \A u \in {"u1", "u2"} :
        (u \notin collected_urls_previous_runs /\ EnteredUnfiltered(u) # {}) =>
            /\ Cardinality(LeftUnfiltered(u)) = 1
            /\ \A p \in EnteredUnfiltered(u) \ LeftUnfiltered(u) :
                 p.filtered /\ p.filtered_at_stage = StageCurrentRun

\* C15: the collector never received more products than the searches of the
\* run returned results (created counts them, one product per result)
C15_ShrinkOnly == Len(collected) <= created

\* the collector got both results of the run and still waits for its sentinel
C15_Witness ==
    /\ created = 2
    /\ Len(collected) = 2
    /\ wstate.res[1] = "idle"

\* the worker tasks run() created for a stage
Tasks(s) == { i \in WorkerIds : wstate[s][i] # "none" }

\* C16: run() spawns min(configured, 1 + additional_terms) search workers
\* (1 + 0 without enrichment), min(configured, num_results) detail workers and
\* min(configured, num_results) classify workers; a maximum of 10 and
\* num_results = 3 give 3
C16_PoolSizing ==
    /\ pc.op # "idle" =>
         /\ Cardinality(Tasks("serp")) =
              Min(cfg.serp, 1 + (IF deepness.enrichment.present
                                 THEN deepness.enrichment.additional_terms ELSE 0))
         /\ Cardinality(Tasks("zyte")) = Min(cfg.zyte, deepness.num_results)
         /\ Cardinality(Tasks("proc")) = Min(cfg.proc, deepness.num_results)
    /\ Min(10, 3) = 3

\* one detail worker for num_results = 1 where two are configured, one
\* search worker without enrichment
C16_Witness ==
    /\ pc.op = "gather"
    /\ cfg.zyte = 2 /\ deepness.num_results = 1
    /\ Tasks("zyte") = {1}
    /\ cfg.proc = 1 /\ Tasks("proc") = {1}
    /\ ~deepness.enrichment.present /\ Tasks("serp") = {1}

\* the classifier API was called for the product with this id
ApiCalled(id) == <<LogClassified, id>> \in logged \/ <<LogClassifyError, id>> \in logged

\* C17: a product without name or description gets the default for missing
\* fields for every prompt, and the classifier API is not called for it
C17_MissingFieldFallback ==
    \A p \in AllItems :
        (p.product_name = NoneV \/ p.product_description = NoneV) =>
            /\ \A k \in DOMAIN p.classifications : p.classifications[k] = DefaultIfMissing
            /\ ~ApiCalled(p.id)
            /\ (p \in Classified /\ ~p.filtered) =>
                   \A k \in 1..Len(prompts) : prompts[k] \in DOMAIN p.classifications

\* the detail fetch of a product failed and it left ClassifyStage with the
\* default for both prompts
C17_Witness ==
    \E p \in Classified :
        /\ ~p.filtered
        /\ <<LogZyteError, p.id>> \in logged
        /\ p.product_name = NoneV /\ p.product_description = NoneV
        /\ Len(prompts) = 2
        /\ \A k \in 1..2 : prompts[k] \in DOMAIN p.classifications
        /\ ~ApiCalled(p.id)

\* C18: every stored classification is an allowed class or the default, and a
\* product for which every call of the classifier failed or replied with
\* something else than an allowed class has the default only
C18_ClassificationRange ==
    \A p \in AllItems :
        /\ \A k \in DOMAIN p.classifications :
             p.classifications[k] \in AllowedClasses \cup {DefaultIfMissing}
        /\ <<LogClassified, p.id>> \notin logged =>
             \A k \in DOMAIN p.classifications : p.classifications[k] = DefaultIfMissing

\* the classifier was called for both prompts of a product with all fields
\* and never gave an allowed class
C18_Witness ==
    \E p \in Classified :
        /\ p.product_name # NoneV /\ p.product_description # NoneV
        /\ <<LogClassifyError, p.id>> \in logged
        /\ <<LogClassified, p.id>> \notin logged
        /\ DOMAIN p.classifications = {"P1", "P2"}
        /\ \A k \in {"P1", "P2"} : p.classifications[k] = DefaultIfMissing

\* C19: when the detail fetch for a product raises, the product is put on the
\* classify queue unfiltered, without filtered_at_stage and without name,
\* price, description, images and probability, the entry is acknowledged and
\* the worker is ready for the next one
C19_DetailFetchError ==
    [][ \A i \in WorkerIds :
          (/\ wstate.zyte[i] = "busy"
           /\ <<LogZyteError, held.zyte[i].id>> \notin logged
           /\ <<LogZyteError, held.zyte[i].id>> \in logged')
          => /\ Len(queues'.proc) = Len(queues.proc) + 1
             /\ LET out == queues'.proc[Len(queues'.proc)]
                IN /\ out.id = held.zyte[i].id
                   /\ ~out.filtered /\ out.filtered_at_stage = NoneV
                   /\ out.product_name = NoneV /\ out.product_price = NoneV
                   /\ out.product_description = NoneV /\ out.product_images = NoneV
                   /\ out.probability = NoProbability
             /\ unfinished'.zyte = unfinished.zyte - 1
             /\ wstate'.zyte[i] = "idle" ]_vars

\* the only detail worker went on after a failed fetch: it forwarded the
\* product of the failed fetch, then the next product, and took its sentinel
C19_Witness ==
    /\ nwk.zyte = 1
    /\ wstate.zyte[1] = "done"
    /\ \E p, q \in Detailed :
         /\ <<LogZyteError, p.id>> \in logged
         /\ ~p.filtered /\ p.product_images = NoneV
         /\ q.id > p.id

\* C20: when the search raises for a task, the task is acknowledged and gives
\* no product, the worker goes on with its loop and does not end with an
\* exception, and it still consumes its sentinel
C20_SearchTaskError ==
    /\ [][ \A i \in WorkerIds :
              (/\ wstate.serp[i] = "busy"
               /\ <<LogSerpError, held.serp[i].search_term>> \notin logged
               /\ <<LogSerpError, held.serp[i].search_term>> \in logged')
              => /\ unfinished'.serp = unfinished.serp - 1
                 /\ queues'.url = queues.url
                 /\ created' = created
                 /\ wstate'.serp[i] = "idle" ]_vars
    /\ [](\A i \in WorkerIds : wstate.serp[i] = "crashed" => crashes > 0)
    /\ []((PastBarrier(1) /\ crashes = 0) =>
             \A i \in Spawned("serp") : wstate.serp[i] = "done" /\ took.serp[i] = 1)

\* the search for the initial term raised, the same worker then searched the
\* enriched term, which gave a product, and took its sentinel
C20_Witness ==
    /\ nwk.serp = 1
    /\ <<LogSerpError, 0>> \in logged
    /\ \E p \in AllItems : p.search_term = 1
    /\ wstate.serp[1] = "done"
    /\ took.serp[1] = 1

\* C21: run() checks the five queues and the five worker handles before it
\* enqueues anything: a queue only gets an entry when the check has passed,
\* and when it fails run() has raised and every queue is empty
C21_SetupValidation ==
    /\ (\E s \in StageSet : queues[s] # <<>> \/ unfinished[s] > 0 \/ sent[s] > 0)
         => framework = CompleteFramework
    /\ (pc.op # "idle" /\ framework # CompleteFramework) =>
         /\ RunRaised
         /\ \A s \in StageSet : queues[s] = <<>> /\ unfinished[s] = 0 /\ sent[s] = 0
         /\ created = 0

\* run() raised on a setup that lacks the handle of the detail workers
C21_Witness ==
    /\ RunRaised
    /\ framework.present
    /\ "zyte" \notin framework.workers
    /\ queues.serp = <<>>

\* the search tasks run() has enqueued
SerpTasks == { k \in 1..Len(serp_puts) : serp_puts[k] # Sentinel }
EnrichedPuts ==
    { k \in SerpTasks : serp_puts[k].search_term_type = "enriched" }
\* _add_serp_items has returned
SeedsEnqueued == pc.op \in {"gather", "join", "done"}

\* C22: run() enqueues exactly one initial task with deepness.num_results,
\* and, if and only if enrichment is configured, one enriched task with
\* additional_urls_per_term per term the Enricher returned; every task comes
\* before every sentinel and there are at most 1 + additional_terms tasks
C22_SeedExpansion ==
    /\ serp_puts # <<>> =>
         /\ serp_puts[1] = [kind |-> "task", search_term |-> 0,
                            search_term_type |-> "initial",
                            num_results |-> deepness.num_results]
         /\ SerpTasks \ EnrichedPuts = {1}
    /\ \A k \in EnrichedPuts :
         /\ deepness.enrichment.present
         /\ serp_puts[k].num_results = deepness.enrichment.additional_urls_per_term
    /\ \A t \in 0..(MaxTerms + 1) :
         (SeedsEnqueued /\ <<LogProduced, t>> \in logged) =>
             /\ Cardinality(EnrichedPuts) = t
             /\ { serp_puts[k].search_term : k \in EnrichedPuts } = 1..t
    /\ (SeedsEnqueued /\ ~deepness.enrichment.present) => EnrichedPuts = {}
    /\ \A a, b \in 1..Len(serp_puts) :
         (a < b /\ serp_puts[a] = Sentinel) => serp_puts[b] = Sentinel
    /\ Cardinality(SerpTasks) <=
         1 + (IF deepness.enrichment.present
              THEN deepness.enrichment.additional_terms ELSE 0)

\* the initial task asked for two results, the Enricher returned one term and
\* its task, asking for one result, was enqueued before the sentinel
C22_Witness ==
    /\ deepness.num_results = 2
    /\ <<LogProduced, 1>> \in logged
    /\ Len(serp_puts) = 3
    /\ serp_puts[2].search_term_type = "enriched"
    /\ serp_puts[2].num_results = 1
    /\ serp_puts[3] = Sentinel

\* C23: every run has exactly one dedup worker and exactly one collector
\* worker, whatever the configured maxima and the deepness
C23_SingleWorkerStages ==
    pc.op # "idle" =>
        /\ Cardinality({ i \in WorkerIds : wstate.url[i] # "none" }) = 1
        /\ Cardinality({ i \in WorkerIds : wstate.res[i] # "none" }) = 1

\* two detail workers run next to the one dedup worker and the one collector
C23_Witness ==
    /\ cfg.zyte = 2
    /\ deepness.num_results = 2
    /\ wstate.zyte[1] # "none" /\ wstate.zyte[2] # "none"
    /\ wstate.url[1] # "none" /\ wstate.url[2] = "none"
    /\ wstate.res[1] # "none" /\ wstate.res[2] = "none"

\* the keywords Enricher.apply got from its two requests
EnrInputs == enr.suggested \o enr.related
\* their texts other than the search term
InputTexts == { EnrInputs[k].text : k \in 1..Len(EnrInputs) } \ {enr.search_term}
\* the largest volume a text occurs with
VolumeOf(t) ==
    LET vs == { EnrInputs[k].volume : k \in { x \in 1..Len(EnrInputs) : EnrInputs[x].text = t } }
    IN CHOOSE v \in vs : \A w \in vs : w <= v
EnrReturned == enr.op = "returned"

\* C24: Enricher.apply never returns the search term and never returns a
\* term twice, whatever the suggested and related keywords are
C24_NoSeedNoDuplicate ==
    EnrReturned =>
        /\ \A k \in 1..Len(enr.terms) : enr.terms[k] # enr.search_term
        /\ \A a, b \in 1..Len(enr.terms) : a # b => enr.terms[a] # enr.terms[b]

\* the suggested keywords hold the search term, the related keywords repeat
\* a suggested one, and a term was returned
C24_Witness ==
    /\ EnrReturned
    /\ \E k \in 1..Len(enr.suggested) : enr.suggested[k].text = enr.search_term
    /\ \E a \in 1..Len(enr.suggested), b \in 1..Len(enr.related) :
         /\ enr.suggested[a].text = enr.related[b].text
         /\ enr.suggested[a].text # enr.search_term
    /\ Len(enr.terms) = 1

\* C25: Enricher.apply returns at most n_terms terms in non-increasing order
\* of volume, and no keyword it leaves out has a larger volume than a returned
\* one, a keyword counting with the largest of its volumes
C25_TopByVolume ==
    EnrReturned =>
        /\ Len(enr.terms) <= enr.n_terms
        /\ \A k \in 1..Len(enr.terms) : enr.terms[k] \in InputTexts
        /\ \A a, b \in 1..Len(enr.terms) :
             a < b => VolumeOf(enr.terms[a]) >= VolumeOf(enr.terms[b])
        /\ \A t \in InputTexts \ { enr.terms[k] : k \in 1..Len(enr.terms) } :
             \A k \in 1..Len(enr.terms) : VolumeOf(t) <= VolumeOf(enr.terms[k])

\* two terms were asked for; the keyword returned first came second in the
\* suggested keywords and has the larger of its two volumes from the related
\* keywords
C25_Witness ==
    /\ EnrReturned
    /\ enr.n_terms = 2
    /\ enr.suggested = <<[text |-> "a", volume |-> 1], [text |-> "b", volume |-> 1]>>
    /\ enr.related = <<[text |-> "b", volume |-> 2]>>
    /\ enr.terms = <<"b", "a">>

C27_BoundedQueues ==
    [][ \A s \in StageSet :
          Len(queues'[s]) > Len(queues[s])
            => /\ Maxsize > 0
               /\ ~Full(queues[s])
               /\ Len(queues'[s]) <= Maxsize ]_vars

\* a step in which the worker of stage s takes a filtered product from its
\* queue
TakesFiltered(s) ==
    /\ queues[s] # <<>>
    /\ Head(queues[s]) # Sentinel
    /\ Head(queues[s]).filtered
    /\ queues'[s] = Tail(queues[s])

\* C28: a product that enters DetailStage or ClassifyStage filtered is put on
\* the next queue in the same step with every field as it was, and no worker
\* starts a call of the detail collaborator or of the classifier for it
\* (no worker changes its state or holds it, nothing is logged)
C28_FilteredPassThrough ==
    [][ /\ TakesFiltered("zyte") =>
             /\ queues'.proc = Append(queues.proc, Head(queues.zyte))
             /\ UNCHANGED <<wstate, held, logged>>
        /\ TakesFiltered("proc") =>
             /\ queues'.res = Append(queues.res, Head(queues.proc))
             /\ UNCHANGED <<wstate, held, logged>> ]_vars

\* the collector holds a product that the search marked and that has no
\* detail field, and a product filtered at the threshold that passed
\* ClassifyStage with its details and without a classification
C28_Witness ==
    /\ \E p \in ItemsOf(collected) :
         /\ p.filtered /\ p.filtered_at_stage = StageSerp
         /\ p.product_name = NoneV /\ p.probability = NoProbability
         /\ p.classifications = <<>>
         /\ <<LogZyteError, p.id>> \notin logged /\ ~ApiCalled(p.id)
    /\ \E p \in ItemsOf(collected) :
         /\ p.filtered /\ p.filtered_at_stage = StageZyte
         /\ p.probability # NoProbability
         /\ p.classifications = <<>> /\ ~ApiCalled(p.id)

\* the lower-cased url has the country code as a dotted label at its end or
\* before a slash, or it contains ".com"
UrlMatches(url, country_code) ==
    LET lower == [k \in 1..Len(url) |-> LowerLabel(url[k])]
        ends == { k \in 1..Len(url) : k = Len(url) \/ lower[k + 1] = "/" }
    IN \/ \E k \in ends : lower[k] = country_code
       \/ \E k \in 1..Len(url) : lower[k] \in {"com", "community"}

\* the record has a probability and it is strictly greater than the threshold
AboveThreshold(r) == r.probability # NoProbability /\ r.probability > r.threshold

\* C29: keep_product returns true exactly when the probability of the record
\* is strictly greater than the threshold and, for the variant with a country
\* code, the url matches the country code; a record without a probability is
\* not kept; probability 0.5 is kept at threshold 0.1 and rejected at 0.6
C29_KeepProduct ==
    /\ (ret.op = "_keep_product_probability" /\ ret.done) =>
          /\ ret.result <=> AboveThreshold(ret)
          /\ ret.probability = NoProbability => ~ret.result
          /\ (ret.probability = 50 /\ ret.threshold = 10) => ret.result
          /\ (ret.probability = 50 /\ ret.threshold = 60) => ~ret.result
    /\ (ret.op = "keep_product" /\ ret.done) =>
          /\ ret.result <=> (UrlMatches(ret.url, ret.country_code) /\ AboveThreshold(ret))
          /\ ret.probability = NoProbability => ~ret.result
          /\ (ret.url = <<"ch">> /\ ret.probability = 50) =>
                (ret.result <=> (ret.country_code = "ch" /\ ret.threshold = 10))

\* http://example.ch with probability 0.5 was kept for country code ch at
\* threshold 0.1
C29_Witness ==
    /\ ret.op = "keep_product" /\ ret.done
    /\ ret.url = <<"ch">> /\ ret.probability = 50
    /\ ret.country_code = "ch" /\ ret.threshold = 10
    /\ ret.result

\* str.lower()
LowerStr(str) == [k \in 1..Len(str) |-> IF str[k] = "A" THEN "a" ELSE str[k]]

\* C30: Host.domains given as a string is the list of its comma-separated
\* pieces, each stripped of surrounding whitespace and lower-cased, in input
\* order; a list is kept as given
C30_SplitDomains ==
    (ret.op = "Host" /\ ret.done) =>
        IF ret.arg.isstr
        THEN LET pieces == Split(ret.arg.val, ",", <<>>, <<>>)
             IN /\ Len(ret.domains) = Len(pieces)
                /\ \A k \in 1..Len(pieces) :
                      ret.domains[k] = LowerStr(Strip(pieces[k]))
        ELSE ret.domains = ret.arg.val

\* the stages whose queues carry ProductItems
ItemStages == {"url", "zyte", "proc", "res"}
\* where the ProductItem with this id is: positions in the queues, workers
\* that hold it, positions in the list of the collector
QueuePlaces(id) ==
    UNION { { <<s, k>> : k \in { j \in 1..Len(queues[s]) :
                                   queues[s][j] # Sentinel /\ queues[s][j].id = id } } :
            s \in ItemStages }
HeldPlaces(id) ==
    { x \in ItemStages \X WorkerIds : held[x[1]][x[2]].kind = "item" /\ held[x[1]][x[2]].id = id }
CollectedPlaces(id) == { k \in 1..Len(collected) : collected[k].id = id }

\* C31: every ProductItem a search worker has put on the dedup queue is, in
\* every state, at exactly one place of the pipeline (no stage drops or
\* duplicates one, filtered or not), and once run() has returned the collector
\* has received each of them exactly once
C31_ItemConservation ==
    /\ \A id \in 1..created :
          Cardinality(QueuePlaces(id)) + Cardinality(HeldPlaces(id))
              + Cardinality(CollectedPlaces(id)) = 1
    /\ RunReturned =>
          /\ Len(collected) = created
          /\ \A id \in 1..created : Cardinality(CollectedPlaces(id)) = 1

\* run() has returned and the collector has two products, one of them filtered
C31_Witness ==
    /\ RunReturned
    /\ created = 2 /\ Len(collected) = 2
    /\ \E a, b \in 1..2 : collected[a].filtered /\ ~collected[b].filtered

\* C32: the first product of a run that enters DedupStage unfiltered with a
\* url that is not in previously_collected_urls leaves it unfiltered, in the
\* first and in every later call of run() on the same Orchestrator
C32_PerRunDedupState ==
    [][ (/\ DedupForwards
         /\ ~Head(queues.url).filtered
         /\ Head(queues.url).url \notin previously_collected_urls
         /\ EnteredUnfiltered(Head(queues.url).url) = {})
        => queues'.zyte[Len(queues'.zyte)] = Head(queues.url) ]_vars

\* the entries a step has appended to the queue of stage s
Appended(s) == SubSeq(queues'[s], Len(queues[s]) + 1, Len(queues'[s]))
\* in the queue of stage s only sentinels follow a sentinel
SentinelsAtTail(s) ==
    \A j, k \in 1..Len(queues[s]) : (j < k /\ queues[s][j] = Sentinel) => queues[s][k] = Sentinel

\* C33: once run() has put a sentinel on a queue, no step appends a task or a
\* ProductItem to that queue, and in every queue only sentinels follow a
\* sentinel; so a worker that takes a sentinel leaves no item behind it
C33_NoItemAfterSentinel ==
    [][ \A s \in StageSet :
          /\ (sent[s] > 0 /\ Len(queues'[s]) > Len(queues[s])) =>
                \A k \in 1..Len(Appended(s)) : Appended(s)[k] = Sentinel
          /\ SentinelsAtTail(s)'
          /\ (queues[s] # <<>> /\ Head(queues[s]) = Sentinel) =>
                \A k \in 1..Len(queues[s]) : queues[s][k] = Sentinel ]_vars

\* with enrichment: the search queue holds an enriched task followed by the
\* sentinels of both search workers, and one worker is still searching
C33_Witness ==
    /\ deepness.enrichment.present
    /\ Len(queues.serp) = 3
    /\ queues.serp[1].kind = "task" /\ queues.serp[1].search_term_type = "enriched"
    /\ queues.serp[2] = Sentinel /\ queues.serp[3] = Sentinel
    /\ \E i \in WorkerIds : wstate.serp[i] = "busy"

\* the workers of stage s that took an entry and have not acknowledged it
Holding(s) == { i \in WorkerIds : held[s][i] # NoEntry }
\* the stage that follows s
NextStage(s) == Stages[StageIndex(s) + 1]

\* C34: the unacknowledged count of every queue is the number of entries in
\* the queue plus the entries its workers hold unacknowledged, and it is not
\* negative (every entry is acknowledged once); a step that acknowledges an
\* item has put it on the output queue (the collector has appended it to its
\* list), and a search worker acknowledges its task together with the put of
\* its products
C34_AckPairing ==
    [][ /\ \A s \in StageSet :
             /\ unfinished'[s] >= 0
             /\ unfinished'[s] = Len(queues'[s]) + Cardinality(Holding(s)')
        /\ \A s \in {"url", "zyte", "proc"} :
             (unfinished'[s] < unfinished[s] /\ took'[s] = took[s]) =>
                 /\ unfinished'[s] = unfinished[s] - 1
                 /\ Len(queues'[NextStage(s)]) = Len(queues[NextStage(s)]) + 1
        /\ (unfinished'.res < unfinished.res /\ took'.res = took.res) =>
             /\ unfinished'.res = unfinished.res - 1
             /\ Len(collected') = Len(collected) + 1
        /\ (unfinished'.serp < unfinished.serp /\ took'.serp = took.serp) =>
             /\ unfinished'.serp = unfinished.serp - 1
             /\ Len(queues'.url) - Len(queues.url) = created' - created ]_vars

\* the detail fetch of a product failed, the product was forwarded and the
\* only detail worker has taken its sentinel: nothing of the detail queue is
\* unacknowledged
C34_Witness ==
    /\ \E p \in AllItems : <<LogZyteError, p.id>> \in logged
    /\ nwk.zyte = 1 /\ took.zyte[1] = 1
    /\ sent.zyte = 1 /\ unfinished.zyte = 0

\* C35: for a product that DedupStage forwards: one that arrived unfiltered
\* with a url in both the current-run set and the previous-run set is marked
\* as a current-run duplicate; the url of an unfiltered product in neither
\* set is added to the current-run set and nothing else ever is; a product
\* that arrived filtered changes neither set
C35_DedupOrder ==
    [][ DedupForwards =>
          LET product == Head(queues.url)
              out == queues'.zyte[Len(queues'.zyte)]
              new == ~product.filtered
                     /\ product.url \notin collected_urls_current_run
                     /\ product.url \notin collected_urls_previous_runs
          IN /\ (/\ ~product.filtered
                 /\ product.url \in collected_urls_current_run
                 /\ product.url \in collected_urls_previous_runs)
                => (out.filtered /\ out.filtered_at_stage = StageCurrentRun)
             /\ collected_urls_current_run' =
                  IF new THEN collected_urls_current_run \cup {product.url}
                         ELSE collected_urls_current_run
             /\ new => product.url \notin collected_urls_current_run
             /\ collected_urls_previous_runs' = collected_urls_previous_runs ]_vars

\* second call of run(): a url is in both sets and a product with it left
\* DedupStage as a current-run duplicate; a product that arrived filtered has
\* left it and its url is in neither set
C35_Witness ==
    /\ calls_left = 0
    /\ \E p \in Deduped :
         /\ p.url \in collected_urls_current_run \cap collected_urls_previous_runs
         /\ p.filtered_at_stage = StageCurrentRun
    /\ \E p \in Deduped :
         /\ p.filtered_at_stage = StageSerp
         /\ p.url \notin collected_urls_current_run \cup collected_urls_previous_runs

\* run() is between its first suspension and its end: its workers are active
WorkersActive == pc.op \in {"enrich", "gather", "join"}

\* C36: while the workers of a run are active no step changes the previous-run
\* set, and a step that changes the current-run set is a step of the
\* DedupStage worker, which takes the head of the dedup queue and forwards it
C36_SeenSetOwnership ==
    [][ /\ WorkersActive => collected_urls_previous_runs' = collected_urls_previous_runs
        /\ collected_urls_current_run' # collected_urls_current_run =>
             /\ DedupForwards
             /\ wstate.url[1] = "idle"
             /\ UNCHANGED <<held, wstate, collected>> ]_vars

\* second call of run(): the previous-run set was replaced at its start; both
\* products of the run were built by a search worker and one of them has gone
\* through all stages to the collector, the sets being as at the start
C36_Witness ==
    /\ calls_left = 0 /\ WorkersActive
    /\ collected_urls_previous_runs = {"u1"} /\ collected_urls_current_run = {"u1"}
    /\ created = 2
    /\ \E p \in ItemsOf(collected) : p.filtered_at_stage = StageCurrentRun

\* what the queue of stage s holds across a step: its entries from position
\* d + 1 on are the first entries of the queue after the step
KeptFrom(s, d) ==
    /\ Len(queues[s]) >= d
    /\ Len(queues'[s]) >= Len(queues[s]) - d
    /\ SubSeq(queues'[s], 1, Len(queues[s]) - d) = SubSeq(queues[s], d + 1, Len(queues[s]))

\* C37: every ProductItem is in at most one queue position or held by at most
\* one worker, never both, and one the collector has is nowhere else; an
\* entry that stays in a queue across a step is not changed by the step (a
\* queue changes at its head by a get and at its tail by a put only)
C37_SingleOwnership ==
    [][ /\ \A id \in 1..created' :
             /\ Cardinality(QueuePlaces(id)') + Cardinality(HeldPlaces(id)') <= 1
             /\ CollectedPlaces(id)' # {} => (QueuePlaces(id)' = {} /\ HeldPlaces(id)' = {})
        /\ \A s \in ItemStages : KeptFrom(s, 0) \/ KeptFrom(s, 1) ]_vars

\* of two detail workers the second holds a product for its detail fetch and
\* the first is idle; the other product of the run waits in the detail queue
C37_Witness ==
    /\ nwk.zyte = 2
    /\ wstate.zyte[1] = "idle" /\ wstate.zyte[2] = "busy"
    /\ held.zyte[2].kind = "item"
    /\ Len(queues.zyte) = 1 /\ queues.zyte[1] # Sentinel
    /\ queues.zyte[1].id # held.zyte[2].id

\* C40: filter_keywords returns None if the keyword contains a blacklisted
\* word and otherwise returns the keyword unchanged
C40_FilterKeywords ==
    (ret.op = "filter_keywords" /\ ret.done) =>
        LET blacklisted == \E k \in 1..Len(ret.keyword) :
                              ret.keyword[k] \in {"risk", "brisk", "gefahr", "danger"}
        IN IF blacklisted THEN ret.result.none
           ELSE ~ret.result.none /\ ret.result.value = ret.keyword

\* C38: SerpApi.search sends at most max_retries requests; it returns the
\* result urls whenever a request succeeds, also after failed ones; it raises
\* the last error only when all max_retries requests failed; it sends no
\* request after a success and does not sleep after the final attempt
C38_SearchRetry ==
    rq.op = "search" =>
        /\ rq.gets <= rq.max_retries
        /\ rq.bound => rq.gets = rq.attempts + 1
        /\ (rq.bound /\ rq.state # "loop") =>
               rq.state = "returned" /\ rq.urls = ResultUrls(rq.answer)
        /\ rq.state = "raised" =>
               ~rq.bound /\ rq.gets = rq.max_retries /\ (rq.gets > 0 => rq.raised = rq.gets)
        /\ (rq.state # "loop" /\ rq.gets > 0) => rq.sleeps = rq.gets - 1

\* C39: call_serpapi makes at most 5 attempts, returns the JSON of the first
\* successful attempt without attempting again, invokes the callback exactly
\* once on success and never for a failed attempt, and raises only after all
\* 5 attempts have failed
C39_CallSerpapi ==
    rq.op = "call_serpapi" =>
        /\ rq.gets <= 5
        /\ rq.state = "returned" => rq.json = rq.gets /\ rq.attempts = rq.gets - 1
        /\ rq.callbacks = (IF rq.state = "returned" /\ rq.callback THEN 1 ELSE 0)
        /\ rq.state = "raised" => rq.attempts = 5 /\ rq.gets = 5

====
